---------------------------- MODULE Spec2Model ----------------------------
(***************************************************************************)
(* A model of edmgutil: the domain matcher, the crontab rewrite and one    *)
(* invocation of the command line (new, import, list, eject, cron,         *)
(* find-downloads).  Strings are sequences of one-character strings.       *)
(***************************************************************************)
EXTENDS Integers, Sequences, FiniteSets, TLC

VARIABLES
    \* matches_domain (src/main.rs)
    pattern, target, mpc, matched,
    \* do_cronedit (src/main.rs): the schedule file, the rewrites applied so far
    cronfile, cronhist, cronpc,
    \* one invocation of main (src/main.rs): what it is given
    env, command, args, world,
    \* ... where it stands, how it ended, what it did to the outside
    pc, result, log,
    \* ... and the locals of the command it runs
    password, size, dmg_exists, mounted_at, marker, test7z,
    encrypted_volumes, image_found, ejected,
    \* find_downloads_command (src/main.rs) and find_downloads_in_folder
    \* (src/downloads.rs): the arguments, the position, the directory entry of
    \* this turn of the loop (<<>> outside the loop body), the names read so
    \* far, the records before and after the last step, the outcome, the lines
    \* printed, the files removed
    fd_args, fd_pc, entry, listed, matches_before, matches, fd_result,
    printed, deleted

scanVars == <<fd_args, fd_pc, entry, listed, matches_before, matches,
              fd_result, printed, deleted>>
matchVars == <<pattern, target, mpc, matched>>
cronVars == <<cronfile, cronhist, cronpc>>
inputVars == <<env, command, args, world>>
imageVars == <<password, size, dmg_exists, mounted_at, marker, test7z>>
ejectVars == <<encrypted_volumes, image_found, ejected>>
mainVars == <<env, command, args, world, pc, result, log,
              password, size, dmg_exists, mounted_at, marker, test7z,
              encrypted_volumes, image_found, ejected>>
vars == <<pattern, target, mpc, matched, cronfile, cronhist, cronpc,
          env, command, args, world, pc, result, log,
          password, size, dmg_exists, mounted_at, marker, test7z,
          encrypted_volumes, image_found, ejected,
          fd_args, fd_pc, entry, listed, matches_before, matches, fd_result,
          printed, deleted>>

None == "None"

\* the variables of a part that takes no step in a specification
IdleMatchVars ==
    /\ pattern = <<>>
    /\ target = <<>>
    /\ mpc = "idle"
    /\ matched = FALSE

IdleCronVars ==
    /\ cronfile = <<>>
    /\ cronhist = <<>>
    /\ cronpc = "idle"

IdleScanVars ==
    /\ fd_args = None
    /\ fd_pc = "idle"
    /\ entry = <<>>
    /\ listed = {}
    /\ matches_before = <<>>
    /\ matches = <<>>
    /\ fd_result = "running"
    /\ printed = <<>>
    /\ deleted = {}

IdleLocals ==
    /\ result = "running"
    /\ log = <<>>
    /\ password = None
    /\ size = 0
    /\ dmg_exists = FALSE
    /\ mounted_at = None
    /\ marker = None
    /\ test7z = None
    /\ encrypted_volumes = <<>>
    /\ image_found = FALSE
    /\ ejected = {}

IdleMainVars ==
    /\ env = None
    /\ command = None
    /\ args = None
    /\ world = None
    /\ pc = "idle"
    /\ IdleLocals

(***************************************************************************)
(* String helpers of the Rust standard library, as the code uses them.     *)
(***************************************************************************)
Strs(chars, n) == UNION {[1..k -> chars] : k \in 0..n}

\* str::starts_with
starts_with(s, p) == Len(s) >= Len(p) /\ SubSeq(s, 1, Len(p)) = p

\* str::ends_with
ends_with(s, suffix) ==
    Len(s) >= Len(suffix) /\ SubSeq(s, Len(s) - Len(suffix) + 1, Len(s)) = suffix

\* str::strip_prefix: the rest after the prefix, or None
strip_prefix(s, p) == IF starts_with(s, p) THEN SubSeq(s, Len(p) + 1, Len(s)) ELSE None

\* <[u8]>::get with a zero-based index; an index outside the slice gives None
bytes_get(s, i) == IF i >= 0 /\ i < Len(s) THEN s[i + 1] ELSE None

(***************************************************************************)
(* matches_domain, src/main.rs 166-174.                                    *)
(***************************************************************************)
WildcardPrefix == <<"*", ".">>

\* The usize subtraction target.len() - rest.len() - 1 is evaluated and wraps.
matches_domain_underflows(pat, tgt) ==
    LET rest == strip_prefix(pat, WildcardPrefix) IN
    /\ rest # None
    /\ tgt # rest
    /\ ends_with(tgt, rest)
    /\ Len(tgt) - Len(rest) - 1 < 0

\* The same function without the dot-boundary test.
matches_domain_nodot(pat, tgt) ==
    LET rest == strip_prefix(pat, WildcardPrefix) IN
    IF rest # None
    THEN tgt = rest \/ ends_with(tgt, rest)
    ELSE tgt = pat

matches_domain(pat, tgt) ==
    LET rest == strip_prefix(pat, WildcardPrefix) IN
    IF rest # None
    THEN \/ tgt = rest
         \/ /\ ends_with(tgt, rest)
            /\ bytes_get(tgt, Len(tgt) - Len(rest) - 1) = "."
    ELSE tgt = pat

(***************************************************************************)
(* do_cronedit, src/main.rs 232-262: the rewrite of the schedule file.     *)
(***************************************************************************)
LF == "\n"
CR == "\r"
Whitespace == {" ", LF, CR}

\* index of the first LF of s, 0 when there is none
FirstLF(s) ==
    IF \E i \in 1..Len(s) : s[i] = LF
    THEN CHOOSE i \in 1..Len(s) : s[i] = LF /\ \A j \in 1..(i - 1) : s[j] # LF
    ELSE 0

\* str::lines: pieces ending at each LF; the LF is dropped and then one CR
\* before it; a last piece without LF is kept as it is (standard libraries
\* before 1.66 also dropped a CR ending that last piece)
RECURSIVE lines(_)
lines(s) ==
    IF s = <<>> THEN <<>>
    ELSE LET k == FirstLF(s) IN
         IF k = 0 THEN <<s>>
         ELSE LET piece == SubSeq(s, 1, k - 1)
                  line == IF piece # <<>> /\ piece[Len(piece)] = CR
                          THEN SubSeq(piece, 1, Len(piece) - 1)
                          ELSE piece
              IN <<line>> \o lines(SubSeq(s, k + 1, Len(s)))

\* str::trim
RECURSIVE trim_start(_)
trim_start(s) ==
    IF s # <<>> /\ s[1] \in Whitespace THEN trim_start(Tail(s)) ELSE s
RECURSIVE trim_end(_)
trim_end(s) ==
    IF s # <<>> /\ s[Len(s)] \in Whitespace
    THEN trim_end(SubSeq(s, 1, Len(s) - 1))
    ELSE s
trim(s) == trim_end(trim_start(s))

\* std::env::current_exe().display(), and the " eject --expired" that follows it
executable == <<"x">>
cron_cmd == executable \o <<"e">>

\* the test without the trim
line_is_managed_untrimmed(line) == ends_with(line, cron_cmd)

\* line.trim().ends_with(&cron_cmd)
line_is_managed(line) == ends_with(trim(line), cron_cmd)

\* writeln!(cron, "{}", line) for every line kept
RECURSIVE write_lines(_, _)
write_lines(ls, add) ==
    IF ls = <<>> THEN <<>>
    ELSE IF line_is_managed(Head(ls)) /\ ~add
         THEN write_lines(Tail(ls), add)
         ELSE Head(ls) \o <<LF>> \o write_lines(Tail(ls), add)

\* "0 * * * * {cron_cmd}"
cron_line == <<"0", " ", "*", " ", "*", " ", "*", " ", "*", " ">> \o cron_cmd

\* the rewrite that appends the line on every install
cron_rewrite_always_appends(add, file) ==
    write_lines(lines(file), add) \o (IF add THEN cron_line \o <<LF>> ELSE <<>>)

\* the string do_cronedit writes back for the file it read
cron_rewrite(add, file) ==
    LET ls == lines(file)
        found == \E i \in 1..Len(ls) : line_is_managed(ls[i])
    IN write_lines(ls, add)
           \o (IF add /\ ~found THEN cron_line \o <<LF>> ELSE <<>>)

CronChars == {"x", "e", " ", LF, CR}
MaxCronLen == 5
MaxCronOps == 2
CrontabModes == {"install", "uninstall"}

InitCronVars ==
    /\ cronfile \in Strs(CronChars, MaxCronLen)
    /\ cronhist = <<>>
    /\ cronpc = "ready"

\* one run as the editor of crontab -e, CRONTAB_MODE set, read and write succeed
CronEdit(mode) ==
    /\ cronpc = "ready"
    /\ Len(cronhist) < MaxCronOps
    /\ cronfile' = cron_rewrite(mode = "install", cronfile)
    /\ cronhist' = Append(cronhist, [mode |-> mode, before |-> cronfile])
    /\ cronpc' = "ready"
    /\ UNCHANGED <<scanVars, matchVars, mainVars>>

\* fs::read_to_string or fs::write returns an error, which do_cronedit returns:
\* the file is as it was, or empty when fs::write failed after truncating it
CronEditFails(mode) ==
    /\ cronpc = "ready"
    /\ Len(cronhist) < MaxCronOps
    /\ cronfile' \in {cronfile, <<>>}
    /\ cronhist' = cronhist
    /\ cronpc' = "failed"
    /\ UNCHANGED <<scanVars, matchVars, mainVars>>

InitCron == InitCronVars /\ IdleMatchVars /\ IdleMainVars /\ IdleScanVars
NextCron ==
    \E mode \in CrontabModes :
        \/ CronEdit(mode)
        \/ CronEditFails(mode)
SpecCron == InitCron /\ [][NextCron]_vars

DomainChars == {"*", ".", "a"}
MaxPatLen == 4
MaxHostLen == 4

InitMatchVars ==
    /\ pattern \in Strs(DomainChars, MaxPatLen)
    /\ target \in Strs(DomainChars, MaxHostLen)
    /\ mpc = "call"
    /\ matched = FALSE

CallMatchesDomain ==
    /\ mpc = "call"
    /\ IF matches_domain_underflows(pattern, target)
       THEN mpc' = "panicked" /\ matched' = FALSE
       ELSE mpc' = "returned" /\ matched' = matches_domain(pattern, target)
    /\ UNCHANGED <<pattern, target>>
    /\ UNCHANGED <<scanVars, cronVars, mainVars>>

InitMatch == InitMatchVars /\ IdleCronVars /\ IdleMainVars /\ IdleScanVars
NextMatch == CallMatchesDomain
SpecMatch == InitMatch /\ [][NextMatch]_vars

(***************************************************************************)
(* The values one invocation works on.  An optional integer is <<n>> or    *)
(* <<>>; a path is <<kind, i>>; an instant is [secs, nanos].               *)
(***************************************************************************)
DigitChars == <<"0", "1", "2", "3", "4", "5", "6", "7", "8", "9">>
IsDigit(c) == \E i \in 1..Len(DigitChars) : DigitChars[i] = c
DigitValue(c) == (CHOOSE i \in 1..Len(DigitChars) : DigitChars[i] = c) - 1

\* u64::to_string
RECURSIVE u64_to_string(_)
u64_to_string(n) ==
    IF n < Len(DigitChars) THEN <<DigitChars[n + 1]>>
    ELSE u64_to_string(n \div Len(DigitChars))
             \o <<DigitChars[(n % Len(DigitChars)) + 1]>>

\* str::parse::<u64>: an optional "+", then one digit or more
RECURSIVE parse_digits(_, _)
parse_digits(s, acc) ==
    IF s = <<>> THEN <<acc>>
    ELSE IF ~IsDigit(Head(s)) THEN <<>>
    ELSE parse_digits(Tail(s), acc * Len(DigitChars) + DigitValue(Head(s)))
parse_u64(s) ==
    LET body == IF s # <<>> /\ Head(s) = "+" THEN Tail(s) ELSE s IN
    IF body = <<>> THEN <<>> ELSE parse_digits(body, 0)

\* src/dmg.rs 119: 60 * 60 * 24
SecsPerDay == 86400
\* src/zip.rs 18: bytes / 1024
ZipSizeDivisor == 1024
\* src/dmg.rs 32: hdiutil create -megabytes counts units of 1024 * 1024 bytes
MegabyteBytes == 1048576

\* the number of images hdiutil info reports, each with one mounted volume
NumVolumes == 2
\* SystemTime::now(), in whole seconds
NowSecs == 100
\* the largest archive, in megabytes
MaxZipMegabytes == 2

Volumes == 1..NumVolumes
MountPoint(i) == <<"vol", i>>
NoPath == <<>>
\* a symbolic link to the first volume, a directory that is no volume, and a
\* path that does not exist
LinkPath == <<"link", 1>>
OtherPath == <<"other", 0>>
MissingPath == <<"missing", 0>>
Paths == {MountPoint(i) : i \in Volumes} \cup {LinkPath, OtherPath, MissingPath}

\* std::fs::canonicalize(..).ok(): NoPath when it fails
canonicalize(w, path) ==
    IF path = LinkPath THEN MountPoint(1)
    ELSE IF path = MissingPath THEN NoPath
    ELSE IF path[1] = "vol" /\ path[2] \in w.unreachable THEN NoPath
    ELSE path

\* fs::read_to_string(..).ok() of .encrypted-volume-good-until: <<>> when the
\* file cannot be read, else <<text>>; the texts are one that is no number, and
\* the seconds around now
NoFile == <<>>
MarkerContents ==
    {NoFile, <<<<"x">>>>, <<<<"+">> \o u64_to_string(NowSecs - 1)>>}
        \cup {<<u64_to_string(NowSecs + d)>> : d \in {-1, 0, 1}}

\* hdiutil info -plist: every image has an entity without mount point and one
\* with
HdiUtilInfo == [i \in Volumes |->
                   <<[mount_point |-> NoPath], [mount_point |-> MountPoint(i)]>>]

\* expires <= now
is_expired_or_now(expires_secs, now) ==
    \/ expires_secs < now.secs
    \/ expires_secs = now.secs

\* eject_command, src/main.rs 130: expires < now, the expiry in whole seconds
is_expired(expires_secs, now) ==
    \/ expires_secs < now.secs
    \/ expires_secs = now.secs /\ 0 < now.nanos

\* list_volumes, src/dmg.rs 88-105: the entities with a mount point whose marker
\* file is read and parsed, in the order of the listing
RECURSIVE list_entities(_, _)
list_entities(w, entities) ==
    IF entities = <<>> THEN <<>>
    ELSE LET mount_point == Head(entities).mount_point
             ts == IF mount_point = NoPath \/ w.markers[mount_point[2]] = NoFile
                   THEN <<>>
                   ELSE parse_u64(w.markers[mount_point[2]][1])
         IN (IF ts # <<>> THEN <<[mount_point |-> mount_point, expires |-> ts[1]]>>
             ELSE <<>>)
                \o list_entities(w, Tail(entities))
RECURSIVE list_images(_, _)
list_images(w, images) ==
    IF images = <<>> THEN <<>>
    ELSE list_entities(w, Head(images)) \o list_images(w, Tail(images))
list_volumes(w) == list_images(w, HdiUtilInfo)

\* the match without the test that the reference path exists
eject_is_match_any(w, a, mount_point) ==
    canonicalize(w, mount_point) =
        (IF a.path # NoPath THEN canonicalize(w, a.path) ELSE NoPath)

\* eject_command, src/main.rs 125 and 131-132
eject_is_match(w, a, mount_point) ==
    LET reference_path ==
            IF a.path # NoPath THEN canonicalize(w, a.path) ELSE NoPath
    IN reference_path # NoPath /\ canonicalize(w, mount_point) = reference_path

\* get_uncompressed_zip_size, src/zip.rs 18
zip_size_units(bytes) == (bytes \div ZipSizeDivisor) + 1

\* check_password, src/zip.rs 32, on what 7z t printed
check_password_stdout_only(wrong_password, everything_ok) == everything_ok
check_password(wrong_password, everything_ok) == ~wrong_password /\ everything_ok

\* secure_volume, src/dmg.rs 119-120 and 124
good_until(now, days) == u64_to_string(now.secs + days * SecsPerDay)

(***************************************************************************)
(* One invocation of main, src/main.rs 264-283.  Every external tool and   *)
(* file operation answers as it may: the process could not be started or   *)
(* the operation returned an error (the ? returns it: "io_error"), or the  *)
(* tool ran and ended with a status the code does not look at.  log holds  *)
(* what the run did to the outside, in order.                              *)
(***************************************************************************)
Commands == {"new", "import", "list", "eject", "cron", "find-downloads"}
DefaultArgs ==
    [keep_dmg |-> FALSE, password |-> None, days |-> 7, size |-> 100,
     extra_size |-> 100, input |-> "file",
     all |-> FALSE, expired |-> FALSE, path |-> NoPath,
     install |-> TRUE, delete |-> FALSE]
DefaultWorld ==
    [now |-> [secs |-> NowSecs, nanos |-> 0],
     markers |-> [i \in Volumes |-> NoFile],
     unreachable |-> {},
     zip_bytes |-> 0]

ZipByteCounts ==
    {b \in {m * MegabyteBytes + d : m \in 0..MaxZipMegabytes, d \in {-1, 0, 1}}
            \cup {ZipSizeDivisor + d : d \in {-1, 0, 1}} : b >= 0}

\* cli.rs: ImageOptions, NewCommand, ImportCommand
ImageArgs ==
    {[DefaultArgs EXCEPT !.keep_dmg = k, !.password = p, !.days = d] :
        k \in BOOLEAN, p \in {None, "given"}, d \in {0, 7}}
ImportArgs ==
    {[a EXCEPT !.extra_size = e, !.input = f] :
        a \in ImageArgs, e \in {0, 100}, f \in {"file", "dir", "missing"}}
\* cli.rs 64-77: --all and --expired conflict with the path, and one of the
\* three is required
EjectArgs ==
    ({[DefaultArgs EXCEPT !.all = a, !.expired = e] :
         a \in BOOLEAN, e \in BOOLEAN} \ {DefaultArgs})
        \cup {[DefaultArgs EXCEPT !.path = q] : q \in Paths}
ArgsOf(c) ==
    CASE c = "new" -> ImageArgs
      [] c = "import" -> ImportArgs
      [] c = "eject" -> EjectArgs
      [] c = "cron" -> {[DefaultArgs EXCEPT !.install = i] : i \in BOOLEAN}
      [] c = "find-downloads" -> {[DefaultArgs EXCEPT !.delete = d] : d \in BOOLEAN}
      [] OTHER -> {DefaultArgs}
WorldsOf(c) ==
    CASE c = "import" -> {[DefaultWorld EXCEPT !.zip_bytes = b] : b \in ZipByteCounts}
      [] c = "eject" ->
            {[DefaultWorld EXCEPT !.now.nanos = n, !.markers = m, !.unreachable = u] :
                n \in {0, 1}, m \in [Volumes -> MarkerContents], u \in {{}, {1}}}
      [] c = "list" ->
            {[DefaultWorld EXCEPT !.markers = m] :
                m \in [Volumes -> {NoFile, <<u64_to_string(NowSecs + 1)>>}]}
      [] OTHER -> {DefaultWorld}

MainCronFiles == {<<>>, <<"e", LF>>, <<"e", LF, "x", "e", LF>>}

InitMain ==
    /\ IdleMatchVars
    /\ env \in [has7z : BOOLEAN, hasHdiutil : BOOLEAN,
                crontab_mode : {None} \cup CrontabModes]
    \* as the editor of crontab -e the arguments are the file, not a command
    /\ command \in (IF env.crontab_mode = None THEN Commands ELSE {None})
    /\ args \in ArgsOf(command)
    /\ world \in WorldsOf(command)
    /\ cronfile \in (IF env.crontab_mode = None THEN {<<>>} ELSE MainCronFiles)
    /\ cronhist = <<>>
    /\ cronpc = (IF env.crontab_mode = None THEN "idle" ELSE "ready")
    /\ pc = "start"
    /\ IdleLocals
    /\ IdleScanVars

Logged(e) == \E i \in 1..Len(log) : log[i] = e
Finish(r) == pc' = "done" /\ result' = r

\* do_cronedit as main calls it, src/main.rs 265-267; as the editor of
\* crontab -e the file is the first argument
DoCronEdit ==
    /\ pc = "start"
    /\ \/ /\ env.crontab_mode = None
          /\ pc' = "which"
          /\ UNCHANGED <<result, log, cronVars>>
       \/ /\ env.crontab_mode # None
          /\ cronfile' = cron_rewrite(env.crontab_mode = "install", cronfile)
          /\ cronhist' = Append(cronhist,
                                [mode |-> env.crontab_mode, before |-> cronfile])
          /\ cronpc' = "ready"
          /\ log' = Append(log, "rewrite_schedule")
          /\ Finish("ok")
       \/ /\ env.crontab_mode # None
          /\ cronfile' \in {cronfile, <<>>}
          /\ cronpc' = "failed"
          /\ Finish("io_error")
          /\ UNCHANGED <<log, cronhist>>
    /\ UNCHANGED <<scanVars, matchVars, inputVars, imageVars, ejectVars>>

FirstStep(c) ==
    CASE c = "new" -> "prepare_dmg"
      [] c = "import" -> "import_input"
      [] c \in {"list", "eject"} -> "list_volumes"
      [] c = "cron" -> "cron_command"
      [] c = "find-downloads" -> "find_downloads"

\* src/main.rs 271-282: which("7z"), then the command
Which ==
    /\ pc = "which"
    /\ IF ~env.has7z
       THEN Finish("7z is not available")
       ELSE pc' = FirstStep(command) /\ UNCHANGED result
    /\ UNCHANGED <<scanVars, matchVars, cronVars, inputVars, log, imageVars, ejectVars>>

\* import_command, src/main.rs 93-97
ImportInput ==
    /\ pc = "import_input"
    /\ CASE args.input = "missing" -> Finish("io_error")
         [] args.input = "dir" -> Finish("source archive is not a file")
         [] OTHER -> pc' = "zip_size" /\ UNCHANGED result
    /\ UNCHANGED <<scanVars, matchVars, cronVars, inputVars, log, imageVars, ejectVars>>

\* import_command, src/main.rs 98, with get_uncompressed_zip_size
ZipSize ==
    /\ pc = "zip_size"
    /\ \/ /\ Finish("io_error")
          /\ UNCHANGED <<log, size>>
       \/ /\ Finish("panic")
          /\ log' = Append(log, "7z_list")
          /\ UNCHANGED size
       \/ /\ size' = zip_size_units(world.zip_bytes) + args.extra_size
          /\ log' = Append(log, "7z_list")
          /\ pc' = "prepare_dmg"
          /\ UNCHANGED result
    /\ UNCHANGED <<scanVars, matchVars, cronVars, inputVars, ejectVars,
                   password, dmg_exists, mounted_at, marker, test7z>>

\* prepare_dmg, src/main.rs 41-50: the password
PrepareDmg ==
    /\ pc = "prepare_dmg"
    /\ size' = (IF command = "new" THEN args.size ELSE size)
    /\ \/ /\ args.password # None
          /\ password' = "given"
          /\ pc' = "make_dmg"
          /\ UNCHANGED <<result, log>>
       \/ /\ args.password = None /\ ~args.keep_dmg /\ command = "new"
          /\ password' = "generated"
          /\ pc' = "make_dmg"
          /\ UNCHANGED <<result, log>>
       \/ /\ args.password = None /\ (args.keep_dmg \/ command # "new")
          /\ log' = Append(log, "prompt")
          /\ \/ password' = "prompted" /\ pc' = "make_dmg" /\ UNCHANGED result
             \/ Finish("io_error") /\ UNCHANGED password
    /\ UNCHANGED <<scanVars, matchVars, cronVars, inputVars, ejectVars,
                   dmg_exists, mounted_at, marker, test7z>>

\* make_dmg, src/dmg.rs 29-50, called at src/main.rs 62: hdiutil create does
\* not start, or starts and the pipe or the wait fails, or it ends with a
\* status (failure, success) that is not looked at
MakeDmg ==
    /\ pc = "make_dmg"
    /\ \/ /\ Finish("io_error")
          /\ UNCHANGED <<log, dmg_exists>>
       \/ /\ env.hasHdiutil
          /\ log' = Append(log, "create")
          /\ dmg_exists' \in BOOLEAN
          /\ Finish("io_error")
       \/ /\ env.hasHdiutil
          /\ log' = log \o <<"create", "create_exit_fail">>
          /\ dmg_exists' = FALSE
          /\ pc' = "mount_dmg"
          /\ UNCHANGED result
       \/ /\ env.hasHdiutil
          /\ log' = Append(log, "create")
          /\ dmg_exists' = TRUE
          /\ pc' = "mount_dmg"
          /\ UNCHANGED result
    /\ UNCHANGED <<scanVars, matchVars, cronVars, inputVars, ejectVars,
                   password, size, mounted_at, marker, test7z>>

NewMountPoint == <<"vol", 0>>

\* mount_dmg, src/dmg.rs 52-78, called at src/main.rs 64: hdiutil attach prints
\* an Apple_HFS line only for a container it attached
MountDmg ==
    /\ pc = "mount_dmg"
    /\ \/ /\ Finish("io_error")
          /\ UNCHANGED <<log, mounted_at>>
       \/ /\ env.hasHdiutil
          /\ log' = Append(log, "mount")
          /\ Finish("io_error")
          /\ UNCHANGED mounted_at
       \/ /\ env.hasHdiutil
          /\ log' = Append(log, "mount")
          /\ Finish("failed to mount dmg")
          /\ UNCHANGED mounted_at
       \/ /\ env.hasHdiutil /\ dmg_exists
          /\ log' = Append(log, "mount")
          /\ Finish("panic")
          /\ UNCHANGED mounted_at
       \/ /\ env.hasHdiutil /\ dmg_exists
          /\ log' = Append(log, "mount")
          /\ mounted_at' = NewMountPoint
          /\ pc' = "secure_volume"
          /\ UNCHANGED result
    /\ UNCHANGED <<scanVars, matchVars, cronVars, inputVars, ejectVars,
                   password, size, dmg_exists, marker, test7z>>

AfterSecure == IF command = "import" THEN "check_password" ELSE "finalize_dmg"

\* secure_volume, src/dmg.rs 118-153, called at src/main.rs 66: the two files
\* are written in this order; SetFile or mdutil may fail to start after them;
\* the status mdutil ends with is not looked at
SecureVolume ==
    /\ pc = "secure_volume"
    /\ \/ /\ log' = Append(log, "secure")
          /\ Finish("io_error")
          /\ UNCHANGED marker
       \/ /\ log' = log \o <<"secure", "write_never_index">>
          /\ Finish("io_error")
          /\ UNCHANGED marker
       \/ /\ log' = log \o <<"secure", "write_never_index", "write_marker">>
          /\ marker' = good_until(world.now, args.days)
          /\ Finish("io_error")
       \/ /\ log' = log \o <<"secure", "write_never_index", "write_marker",
                             "mdutil", "mdutil_exit_fail">>
          /\ marker' = good_until(world.now, args.days)
          /\ pc' = AfterSecure
          /\ UNCHANGED result
       \/ /\ log' = log \o <<"secure", "write_never_index", "write_marker",
                             "mdutil">>
          /\ marker' = good_until(world.now, args.days)
          /\ pc' = AfterSecure
          /\ UNCHANGED result
    /\ UNCHANGED <<scanVars, matchVars, cronVars, inputVars, ejectVars,
                   password, size, dmg_exists, mounted_at, test7z>>

\* import_command, src/main.rs 100-102, with check_password
CheckPassword ==
    /\ pc = "check_password"
    /\ \/ /\ Finish("io_error")
          /\ UNCHANGED <<log, test7z>>
       \/ \E wrong_password \in BOOLEAN, everything_ok \in BOOLEAN :
              /\ log' = Append(log, "7z_test")
              /\ test7z' = <<wrong_password, everything_ok>>
              /\ IF check_password(wrong_password, everything_ok)
                 THEN pc' = "extract" /\ UNCHANGED result
                 ELSE Finish("invalid password")
    /\ UNCHANGED <<scanVars, matchVars, cronVars, inputVars, ejectVars,
                   password, size, dmg_exists, mounted_at, marker>>

\* import_command, src/main.rs 103-104, with extract
Extract ==
    /\ pc = "extract"
    /\ \/ /\ Finish("io_error")
          /\ UNCHANGED log
       \/ /\ log' = Append(log, "extract")
          /\ pc' = "finalize_dmg"
          /\ UNCHANGED result
    /\ UNCHANGED <<scanVars, matchVars, cronVars, inputVars, imageVars, ejectVars>>

\* finalize_dmg, src/main.rs 75-84
FinalizeDmg ==
    /\ pc = "finalize_dmg"
    /\ \/ /\ args.keep_dmg
          /\ log' = log \o <<"finalize", "report_dmg", "report_mount">>
          /\ Finish("ok")
          /\ UNCHANGED dmg_exists
       \/ /\ ~args.keep_dmg
          /\ log' = log \o <<"finalize", "delete_dmg", "report_mount">>
          /\ dmg_exists' = FALSE
          /\ Finish("ok")
       \/ /\ ~args.keep_dmg
          /\ log' = Append(log, "finalize")
          /\ Finish("io_error")
          /\ UNCHANGED dmg_exists
    /\ UNCHANGED <<scanVars, matchVars, cronVars, inputVars, ejectVars,
                   password, size, mounted_at, marker, test7z>>

\* list_volumes, src/dmg.rs 80-106, called at src/main.rs 110 and 124
ListVolumes ==
    /\ pc = "list_volumes"
    /\ \/ /\ Finish("io_error")
          /\ UNCHANGED <<log, encrypted_volumes>>
       \/ /\ env.hasHdiutil
          /\ log' = Append(log, "query")
          /\ Finish("io_error")
          /\ UNCHANGED encrypted_volumes
       \/ /\ env.hasHdiutil
          /\ log' = log \o <<"query", "list_volumes">>
          /\ encrypted_volumes' = list_volumes(world)
          /\ pc' = (IF command = "list" THEN "list_print" ELSE "eject_loop")
          /\ UNCHANGED result
    /\ UNCHANGED <<scanVars, matchVars, cronVars, inputVars, imageVars, image_found, ejected>>

\* list_command, src/main.rs 111-120
ListPrint ==
    /\ pc = "list_print"
    /\ log' = Append(log, "print_list")
    /\ Finish("ok")
    /\ UNCHANGED <<scanVars, matchVars, cronVars, inputVars, imageVars, ejectVars>>

\* eject_command, src/main.rs 129-144: one turn of the loop
EjectLoop ==
    /\ pc = "eject_loop"
    /\ encrypted_volumes # <<>>
    /\ LET mount_point == Head(encrypted_volumes).mount_point
           expired == is_expired(Head(encrypted_volumes).expires, world.now)
           is_match == eject_is_match(world, args, mount_point)
       IN IF (args.expired /\ expired) \/ args.all \/ is_match
          THEN \/ /\ Finish("io_error")
                  /\ UNCHANGED <<log, encrypted_volumes, image_found, ejected>>
               \/ /\ log' = Append(log, "eject")
                  /\ ejected' = ejected \cup {mount_point}
                  /\ image_found' = (image_found \/ is_match)
                  /\ encrypted_volumes' = Tail(encrypted_volumes)
                  /\ UNCHANGED <<pc, result>>
          ELSE /\ image_found' = (image_found \/ is_match)
               /\ encrypted_volumes' = Tail(encrypted_volumes)
               /\ UNCHANGED <<pc, result, log, ejected>>
    /\ UNCHANGED <<scanVars, matchVars, cronVars, inputVars, imageVars>>

\* eject_command, src/main.rs 146-150
EjectEnd ==
    /\ pc = "eject_loop"
    /\ encrypted_volumes = <<>>
    /\ IF ~image_found /\ args.path # NoPath
       THEN Finish("volume was not mounted")
       ELSE Finish("ok")
    /\ UNCHANGED <<scanVars, matchVars, cronVars, inputVars, log, imageVars, ejectVars>>

\* cron_command, src/main.rs 153-164
CronCommand ==
    /\ pc = "cron_command"
    /\ \/ /\ Finish("io_error")
          /\ UNCHANGED log
       \/ /\ log' = Append(log, "crontab")
          /\ Finish("ok")
    /\ UNCHANGED <<scanVars, matchVars, cronVars, inputVars, imageVars, ejectVars>>

\* find_downloads_command, src/main.rs 176-230: no download folder, the folder
\* or an entry's property list cannot be read, or the scan ends and, with
\* --delete, the matches are removed
\* (SpecScan below follows the scan entry by entry)
FindDownloads ==
    /\ pc = "find_downloads"
    /\ \/ /\ Finish("could not find download dir")
          /\ UNCHANGED log
       \/ /\ Finish("io_error")
          /\ UNCHANGED log
       \/ /\ log' = Append(log, "scan")
          /\ Finish("io_error")
       \/ /\ ~args.delete
          /\ log' = Append(log, "scan")
          /\ Finish("ok")
       \/ /\ args.delete
          /\ log' = log \o <<"scan", "delete_files">>
          /\ Finish("ok")
    /\ UNCHANGED <<scanVars, matchVars, cronVars, inputVars, imageVars, ejectVars>>

Init == InitMain
Next ==
    \/ DoCronEdit
    \/ Which
    \/ ImportInput
    \/ ZipSize
    \/ PrepareDmg
    \/ MakeDmg
    \/ MountDmg
    \/ SecureVolume
    \/ CheckPassword
    \/ Extract
    \/ FinalizeDmg
    \/ ListVolumes
    \/ ListPrint
    \/ EjectLoop
    \/ EjectEnd
    \/ CronCommand
    \/ FindDownloads
Spec == Init /\ [][Next]_vars

(***************************************************************************)
(* find_downloads_command, src/main.rs 176-230, with the loop of           *)
(* find_downloads_in_folder, src/downloads.rs 9-37, one step per directory *)
(* entry.  A URL string is a sequence of tokens: a scheme token, then the  *)
(* characters of the host.                                                 *)
(***************************************************************************)
HttpsScheme == "https://"
Lower(c) == IF c = "A" THEN "a" ELSE IF c = "B" THEN "b" ELSE c
to_lowercase(s) == [i \in 1..Len(s) |-> Lower(s[i])]
IsHostDigits(s) == \A i \in 1..Len(s) : IsDigit(s[i])
\* the host a number stands for, as the dotted address it is stored as
ipv4_text(s) == <<"0", ".", "0", ".", "0", ".">> \o s

\* Url::parse, src/downloads.rs 22: <<>> for a string that is no absolute
\* URL or has an empty host, otherwise <<url>>; the host is lower-cased and a
\* numeric host is an address, not a domain
Url_parse(s) ==
    IF Len(s) = 0 \/ s[1] # HttpsScheme
    THEN <<>>
    ELSE LET host == to_lowercase(Tail(s)) IN
         IF host = <<>>
         THEN <<>>
         ELSE IF IsHostDigits(host)
              THEN <<[scheme |-> HttpsScheme, host |-> ipv4_text(host),
                      is_domain |-> FALSE]>>
              ELSE <<[scheme |-> HttpsScheme, host |-> host,
                      is_domain |-> TRUE]>>

\* Url::domain, src/main.rs 200
url_domain(url) == IF url.is_domain THEN <<url.host>> ELSE <<>>

\* the filter_map of src/downloads.rs 20-23
RECURSIVE parsed_urls(_)
parsed_urls(might_be_urls) ==
    IF might_be_urls = <<>>
    THEN <<>>
    ELSE Url_parse(Head(might_be_urls)) \o parsed_urls(Tail(might_be_urls))

\* src/main.rs 186-188
date_threshold(days) ==
    IF days = <<>> THEN <<>> ELSE <<NowSecs - 60 * 60 * 24 * days[1]>>

\* the closure of src/main.rs 189-203: created is the creation time of the
\* file, <<>> when the metadata or the time cannot be read
is_match(a, url, created) ==
    LET threshold == date_threshold(a.days) IN
    IF threshold # <<>> /\ created # <<>> /\ created[1] >= threshold[1]
    THEN FALSE
    ELSE \/ a.domains = <<>>
         \/ \E i \in 1..Len(a.domains) :
               /\ url_domain(url) # <<>>
               /\ matches_domain(a.domains[i], url_domain(url)[1])

\* the filter(..).next() of src/downloads.rs 24-27: <<>> or <<source>>
RECURSIVE first_match(_, _, _)
first_match(a, urls, created) ==
    IF urls = <<>>
    THEN <<>>
    ELSE IF is_match(a, Head(urls), created)
         THEN <<Head(urls)>>
         ELSE first_match(a, Tail(urls), created)

\* the order of file names (OsString): by bytes, a prefix first
ByteOf(c) == IF c = "a" THEN 97 ELSE 98
RECURSIVE name_less(_, _)
name_less(x, y) ==
    IF y = <<>>
    THEN FALSE
    ELSE IF x = <<>>
         THEN TRUE
         ELSE IF Head(x) = Head(y)
              THEN name_less(Tail(x), Tail(y))
              ELSE ByteOf(Head(x)) < ByteOf(Head(y))

\* sort_by_cached_key, src/downloads.rs 34: a stable sort by file name
RECURSIVE insert_sorted(_, _)
insert_sorted(sorted, m) ==
    IF sorted = <<>>
    THEN <<m>>
    ELSE IF name_less(m.path, Head(sorted).path)
         THEN <<m>> \o sorted
         ELSE <<Head(sorted)>> \o insert_sorted(Tail(sorted), m)

RECURSIVE sort_by_cached_key(_)
sort_by_cached_key(ms) ==
    IF ms = <<>>
    THEN <<>>
    ELSE insert_sorted(sort_by_cached_key(SubSeq(ms, 1, Len(ms) - 1)),
                       ms[Len(ms)])

MaxEntries == 2
MaxUrls == 2
FileNames == {<<"a">>, <<"a", "b">>, <<"b">>}
UrlStrings ==
    {<<HttpsScheme, "a", ".", "a">>, <<HttpsScheme, "B">>,
     <<HttpsScheme, "1">>, <<"a">>}
UrlLists == Strs(UrlStrings, MaxUrls)
\* xattr::get, src/downloads.rs 17: an error, no such attribute, or its bytes;
\* the bytes are a property list holding an array of strings, or are not
Attrs ==
    {<<"error", <<>>>>, <<"absent", <<>>>>, <<"undecodable", <<>>>>}
        \cup {<<"urls", l>> : l \in UrlLists}
CreatedTimes ==
    {<<>>, <<NowSecs - SecsPerDay - 1>>, <<NowSecs - SecsPerDay>>}
\* what the iterator of fs::read_dir yields: an error or an entry
DirEntries ==
    {[ok |-> FALSE, path |-> <<>>, attr |-> <<"absent", <<>>>>, created |-> <<>>]}
        \cup [ok : {TRUE}, path : FileNames, attr : Attrs, created : CreatedTimes]

\* cli.rs 104-123
DomainFilters == {<<>>, <<<<"*", ".", "a">>>>, <<<<"b">>, <<"*", ".", "a">>>>}
\* the arguments the scan works with; path, verbose and delete are read once
\* each and are drawn where they are read
FindDownloadsArgs == [domains : DomainFilters, days : {<<>>, <<1>>}]

InitScanVars ==
    /\ fd_args \in FindDownloadsArgs
    /\ fd_pc = "start"
    /\ entry = <<>>
    /\ listed = {}
    /\ matches_before = <<>>
    /\ matches = <<>>
    /\ fd_result = "running"
    /\ printed = <<>>
    /\ deleted = {}

FdFinish(r) == fd_pc' = "done" /\ fd_result' = r

\* src/main.rs 177-184 and fs::read_dir, src/downloads.rs 15: without a path
\* argument the user's download folder may be unknown; the folder may be
\* unreadable
OpenDownloadDir ==
    /\ fd_pc = "start"
    /\ \/ FdFinish("could not find download dir")
       \/ FdFinish("io_error")
       \/ fd_pc' = "read_dir" /\ UNCHANGED fd_result
    /\ UNCHANGED <<fd_args, entry, listed, matches_before, matches, printed,
                   deleted>>
    /\ UNCHANGED <<matchVars, cronVars, mainVars>>

\* the head of the loop, src/downloads.rs 15-17: the iterator yields an error
\* (the ? returns it) or an entry, whose attribute is read
NextEntry ==
    /\ fd_pc = "read_dir"
    /\ Cardinality(listed) < MaxEntries
    /\ \E e \in DirEntries :
          /\ e.ok => e.path \notin listed
          /\ entry' = <<e>>
          /\ IF e.ok
             THEN /\ listed' = listed \cup {e.path}
                  /\ fd_pc' = "entry"
                  /\ UNCHANGED fd_result
             ELSE FdFinish("io_error") /\ UNCHANGED listed
    /\ UNCHANGED <<fd_args, matches_before, matches, printed, deleted>>
    /\ UNCHANGED <<matchVars, cronVars, mainVars>>

\* the body of the loop, src/downloads.rs 18-31: an attribute that was read is
\* decoded (the ? returns the error) and the first matching URL is recorded
ScanEntry ==
    /\ fd_pc = "entry"
    /\ matches_before' = matches
    /\ LET e == entry[1] IN
       CASE e.attr[1] = "undecodable" ->
                 FdFinish("io_error") /\ UNCHANGED <<entry, matches>>
         [] e.attr[1] = "urls" ->
                 LET source == first_match(fd_args, parsed_urls(e.attr[2]),
                                           e.created)
                 IN /\ matches' =
                         IF source # <<>>
                         THEN Append(matches, [path |-> e.path,
                                               source |-> source[1]])
                         ELSE matches
                    /\ fd_pc' = "read_dir"
                    /\ entry' = <<>>
                    /\ UNCHANGED fd_result
         [] OTHER ->
                 /\ fd_pc' = "read_dir"
                 /\ entry' = <<>>
                 /\ UNCHANGED <<matches, fd_result>>
    /\ UNCHANGED <<fd_args, listed, printed, deleted>>
    /\ UNCHANGED <<matchVars, cronVars, mainVars>>

\* the end of the directory, src/downloads.rs 34-36; the loop's entry and the
\* iterator are gone
SortMatches ==
    /\ fd_pc = "read_dir"
    /\ matches_before' = matches
    /\ matches' = sort_by_cached_key(matches)
    /\ fd_pc' = "print"
    /\ entry' = <<>>
    /\ listed' = {}
    /\ UNCHANGED <<fd_args, fd_result, printed, deleted>>
    /\ UNCHANGED <<matchVars, cronVars, mainVars>>

\* src/main.rs 205-216; the creation time printed with --verbose is left out
RECURSIVE print_lines(_, _)
print_lines(ms, verbose) ==
    IF ms = <<>>
    THEN <<>>
    ELSE <<<<"path", Head(ms).path>>>>
            \o (IF verbose THEN <<<<"source", Head(ms).source.host>>>> ELSE <<>>)
            \o print_lines(Tail(ms), verbose)

PrintMatches ==
    /\ fd_pc = "print"
    /\ \E verbose \in BOOLEAN : printed' = print_lines(matches, verbose)
    /\ \/ fd_pc' = "delete" /\ UNCHANGED fd_result
       \/ FdFinish("ok")
    /\ UNCHANGED <<fd_args, entry, listed, matches_before, matches, deleted>>
    /\ UNCHANGED <<matchVars, cronVars, mainVars>>

\* src/main.rs 218-227, with --delete: a removal that fails is passed over
DeleteMatches ==
    /\ fd_pc = "delete"
    /\ deleted' \in SUBSET {matches[i].path : i \in 1..Len(matches)}
    /\ printed' = Append(printed, <<"Deleted", Len(matches)>>)
    /\ FdFinish("ok")
    /\ UNCHANGED <<fd_args, entry, listed, matches_before, matches>>
    /\ UNCHANGED <<matchVars, cronVars, mainVars>>

InitScan == InitScanVars /\ IdleMatchVars /\ IdleCronVars /\ IdleMainVars
NextScan ==
    \/ OpenDownloadDir
    \/ NextEntry
    \/ ScanEntry
    \/ SortMatches
    \/ PrintMatches
    \/ DeleteMatches
SpecScan == InitScan /\ [][NextScan]_vars

(***************************************************************************)
(* C1: matches_domain(pattern, host) equals the reference rule: for a      *)
(* pattern "*." D the result is true iff host = D or host ends with "." D; *)
(* for any other pattern it is true iff host = pattern.  The call never    *)
(* panics.                                                                 *)
(***************************************************************************)
RefIsWildcard(pat) == Len(pat) >= 2 /\ pat[1] = "*" /\ pat[2] = "."
RefDomain(pat) == [i \in 1..(Len(pat) - 2) |-> pat[i + 2]]
RefEndsWithDotD(host, d) ==
    \E k \in 1..Len(host) :
        /\ host[k] = "."
        /\ Len(host) - k = Len(d)
        /\ \A i \in 1..Len(d) : host[k + i] = d[i]
RefMatches(pat, host) ==
    IF RefIsWildcard(pat)
    THEN host = RefDomain(pat) \/ RefEndsWithDotD(host, RefDomain(pat))
    ELSE host = pat

C1_MatchesReference ==
    /\ mpc # "panicked"
    /\ mpc = "returned" => (matched <=> RefMatches(pattern, target))

\* "aa" against "*.a": ends with D without a dot boundary, answered false
C1_Witness ==
    /\ mpc = "returned"
    /\ pattern = <<"*", ".", "a">>
    /\ target = <<"a", "a">>
    /\ matched = FALSE

(***************************************************************************)
(* Reference notions for eject, stated on the mounted volumes themselves.  *)
(***************************************************************************)
RefIsNumber(text) ==
    LET digits == IF text # <<>> /\ text[1] = "+"
                  THEN [k \in 1..(Len(text) - 1) |-> text[k + 1]]
                  ELSE text
    IN digits # <<>> /\ \A k \in 1..Len(digits) : IsDigit(digits[k])
RefNumber(text) ==
    CHOOSE n \in 0..(NowSecs + 1) :
        text = u64_to_string(n) \/ text = <<"+">> \o u64_to_string(n)
\* the expiry marker is readable and holds an integer
RefManagedVolume(i) ==
    world.markers[i] # <<>> /\ RefIsNumber(world.markers[i][1])
\* the expiry instant is strictly before now
RefExpired(i) ==
    LET e == RefNumber(world.markers[i][1]) IN
    e < world.now.secs \/ (e = world.now.secs /\ world.now.nanos > 0)
RefPathMatches(i) ==
    /\ args.path # NoPath
    /\ canonicalize(world, args.path) # NoPath
    /\ canonicalize(world, MountPoint(i)) = canonicalize(world, args.path)
RefSelected(i) ==
    \/ args.all
    \/ args.expired /\ RefExpired(i)
    \/ RefPathMatches(i)
EjectRanToItsEnd ==
    pc = "done" /\ result \in {"ok", "volume was not mounted"}

(***************************************************************************)
(* C2: in a run of eject, only managed volumes that satisfy a requested    *)
(* criterion (--all, --expired with an expiry strictly before now, or the  *)
(* canonical path) are ejected, and when the run reaches its end (no       *)
(* external call returned an I/O error) every such volume has been         *)
(* ejected.                                                                *)
(***************************************************************************)
C2_EjectSelection ==
    command = "eject" =>
        /\ \A i \in Volumes :
               MountPoint(i) \in ejected => RefManagedVolume(i) /\ RefSelected(i)
        /\ EjectRanToItsEnd =>
               \A i \in Volumes :
                   (RefManagedVolume(i) /\ RefSelected(i)) => MountPoint(i) \in ejected

\* --expired with volume 1 expired a second ago and volume 2 expiring exactly now
C2_Witness ==
    /\ command = "eject"
    /\ pc = "done" /\ result = "ok"
    /\ args.expired /\ ~args.all
    /\ world.now.nanos = 0
    /\ world.markers[1] = <<u64_to_string(NowSecs - 1)>>
    /\ world.markers[2] = <<u64_to_string(NowSecs)>>
    /\ ejected = {MountPoint(1)}

RefNoVolumeAtPath ==
    /\ args.path # NoPath
    /\ ~\E i \in Volumes : RefManagedVolume(i) /\ RefPathMatches(i)

(***************************************************************************)
(* C3: eject ends with "volume was not mounted" exactly when a path was    *)
(* given and no managed volume's canonical path equals it (also when the   *)
(* path cannot be canonicalized); with --all or --expired and no path it   *)
(* succeeds even when no volume matches.  (A run whose volume query or     *)
(* eject call returned an I/O error ends with that error instead.)         *)
(***************************************************************************)
C3_NotMountedError ==
    (command = "eject" /\ pc = "done") =>
        /\ result = "volume was not mounted" => RefNoVolumeAtPath
        /\ (RefNoVolumeAtPath /\ Logged("list_volumes"))
               => result = "volume was not mounted"
        /\ EjectRanToItsEnd =>
               (result = "volume was not mounted" <=> RefNoVolumeAtPath)
        /\ (/\ args.path = NoPath
            /\ Logged("list_volumes")
            /\ ~\E i \in Volumes : RefManagedVolume(i) /\ RefSelected(i))
               => result = "ok"

\* a path that cannot be canonicalized, with a managed volume mounted
C3_Witness ==
    /\ command = "eject"
    /\ pc = "done"
    /\ args.path = MissingPath
    /\ RefManagedVolume(1)
    /\ ejected = {}
    /\ result = "volume was not mounted"

(***************************************************************************)
(* Reference notions for the schedule file, stated on the file's text:     *)
(* its lines are the pieces each line feed ends (and a last piece without  *)
(* one), a line's trailing content is what ends at its last character that *)
(* is not white space.                                                     *)
(***************************************************************************)
\* the lines read so far (acc) and the line being read (cur), from position i on
RECURSIVE RefSplitFrom(_, _, _, _)
RefSplitFrom(file, i, cur, acc) ==
    IF i > Len(file) THEN (IF cur = <<>> THEN acc ELSE Append(acc, cur))
    ELSE IF file[i] = LF THEN RefSplitFrom(file, i + 1, <<>>, Append(acc, cur))
    ELSE RefSplitFrom(file, i + 1, Append(cur, file[i]), acc)
RefSplit(file) == RefSplitFrom(file, 1, <<>>, <<>>)
RefManaged(line) ==
    \E n \in 1..Len(line) :
        /\ line[n] \notin Whitespace
        /\ \A j \in (n + 1)..Len(line) : line[j] \in Whitespace
        /\ n >= Len(cron_cmd)
        /\ \A k \in 1..Len(cron_cmd) : line[n - Len(cron_cmd) + k] = cron_cmd[k]
RefUnrelated(file) == SelectSeq(RefSplit(file), LAMBDA l : ~RefManaged(l))
RefManagedCount(file) == Len(RefSplit(file)) - Len(RefUnrelated(file))
NoCR(file) == \A i \in 1..Len(file) : file[i] # CR
LfTerminated(file) == file = <<>> \/ file[Len(file)] = LF

CronAllInstalls ==
    /\ cronpc = "ready"
    /\ cronhist # <<>>
    /\ \A i \in 1..Len(cronhist) : cronhist[i].mode = "install"

(***************************************************************************)
(* C4 as stated: for any initial schedule file, after one or more installs *)
(* the file holds exactly one managed line, and a second install leaves    *)
(* the file as the first install left it.                                  *)
(***************************************************************************)
C4_AnyFileExactlyOne ==
    CronAllInstalls =>
        /\ RefManagedCount(cronfile) = 1
        /\ \A i \in 2..Len(cronhist) : cronfile = cronhist[i].before

(***************************************************************************)
(* C4 amended: after one or more installs the number of managed lines is   *)
(* the initial number, or one when the initial file held none (so exactly  *)
(* one whenever the initial file held at most one); a further install adds *)
(* no managed line and, for an initial file without carriage returns,      *)
(* leaves the file as the first install left it.                           *)
(***************************************************************************)
C4_InstallIdempotent ==
    CronAllInstalls =>
        LET n0 == RefManagedCount(cronhist[1].before) IN
        /\ RefManagedCount(cronfile) = (IF n0 = 0 THEN 1 ELSE n0)
        /\ NoCR(cronhist[1].before) =>
               \A i \in 2..Len(cronhist) : cronfile = cronhist[i].before

\* two installs on a file without managed line: one managed line, no change
C4_Witness ==
    /\ CronAllInstalls
    /\ Len(cronhist) = 2
    /\ cronhist[1].before = <<"e", LF>>
    /\ RefManagedCount(cronfile) = 1
    /\ cronfile = cronhist[2].before
    /\ cronfile # cronhist[1].before

CronLast == cronhist[Len(cronhist)]
CronInstallThenUninstall ==
    /\ Len(cronhist) >= 2
    /\ cronhist[Len(cronhist) - 1].mode = "install"
    /\ cronhist[Len(cronhist)].mode = "uninstall"

(***************************************************************************)
(* C5 as stated: both rewrites keep every unrelated line verbatim and in   *)
(* order; uninstalling when no managed line is present leaves the file     *)
(* unchanged; install followed by uninstall restores the original file     *)
(* byte for byte.                                                          *)
(***************************************************************************)
C5_ByteForByte ==
    (cronpc = "ready" /\ cronhist # <<>>) =>
        /\ RefUnrelated(cronfile) = RefUnrelated(CronLast.before)
        /\ (CronLast.mode = "uninstall" /\ RefManagedCount(CronLast.before) = 0)
               => cronfile = CronLast.before
        /\ CronInstallThenUninstall
               => cronfile = cronhist[Len(cronhist) - 1].before

(***************************************************************************)
(* C5 amended: for a file without carriage returns, install changes no     *)
(* line and appends the managed line only when none is present, uninstall  *)
(* removes exactly the managed lines, and the unrelated lines stay verbatim*)
(* and in order.  When moreover every line of the file ends in a line feed,*)
(* uninstalling with no managed line present leaves the file unchanged, and*)
(* install followed by uninstall restores an original file that held no    *)
(* managed line.                                                           *)
(***************************************************************************)
C5_UnrelatedLinesKept ==
    (cronpc = "ready" /\ cronhist # <<>>) =>
        LET b == CronLast.before IN
        /\ NoCR(b) =>
              /\ RefUnrelated(cronfile) = RefUnrelated(b)
              /\ RefSplit(cronfile) =
                    (IF CronLast.mode = "uninstall" THEN RefUnrelated(b)
                     ELSE IF RefManagedCount(b) = 0
                          THEN Append(RefSplit(b), cron_line)
                          ELSE RefSplit(b))
        /\ (/\ CronLast.mode = "uninstall"
            /\ RefManagedCount(b) = 0
            /\ NoCR(b) /\ LfTerminated(b)) => cronfile = b
        /\ CronInstallThenUninstall =>
              LET b0 == cronhist[Len(cronhist) - 1].before IN
              (RefManagedCount(b0) = 0 /\ NoCR(b0) /\ LfTerminated(b0))
                  => cronfile = b0

\* install then uninstall on a file of two unrelated lines gives it back
C5_Witness ==
    /\ cronpc = "ready"
    /\ Len(cronhist) = 2
    /\ CronInstallThenUninstall
    /\ cronhist[1].before = <<"e", LF, "x", LF>>
    /\ cronhist[2].before # cronhist[1].before
    /\ cronfile = cronhist[1].before

(***************************************************************************)
(* Reference notions for new and import, stated on the log of the run.     *)
(***************************************************************************)
\* the place of the first e in the log, 0 when there is none
Pos(e) ==
    IF Logged(e)
    THEN CHOOSE i \in 1..Len(log) : log[i] = e /\ \A j \in 1..(i - 1) : log[j] # e
    ELSE 0
Before(a, b) == Pos(a) > 0 /\ Pos(a) < Pos(b)
RefCeilDiv(n, unit) == CHOOSE q \in 0..n : q * unit >= n /\ (q = 0 \/ (q - 1) * unit < n)

(***************************************************************************)
(* C6: the container size import requests from hdiutil, in megabytes, is   *)
(* the archive's uncompressed size rounded up to megabytes plus the        *)
(* extra-size margin, for every byte count.  Both readings of "rounded up  *)
(* to the next unit" are accepted here: the ceiling, and the floor plus    *)
(* one.                                                                    *)
(***************************************************************************)
C6_ContainerSize ==
    (command = "import" /\ Logged("create")) =>
        \/ size = RefCeilDiv(world.zip_bytes, MegabyteBytes) + args.extra_size
        \/ size = (world.zip_bytes \div MegabyteBytes) + 1 + args.extra_size

(***************************************************************************)
(* C7: in import, extraction starts only after the password test of the    *)
(* same run succeeded (7z reported no wrong password and "Everything is    *)
(* Ok"); when the test ran and did not succeed the run ends with "invalid  *)
(* password" and neither extraction nor finalization is performed.         *)
(***************************************************************************)
C7_PasswordBeforeExtract ==
    command = "import" =>
        /\ Logged("extract") =>
               /\ test7z = <<FALSE, TRUE>>
               /\ Before("7z_test", "extract")
        /\ (Logged("7z_test") /\ test7z # <<FALSE, TRUE>>) =>
               /\ pc = "done"
               /\ result = "invalid password"
               /\ ~Logged("extract")
               /\ ~Logged("finalize")
               /\ ~Logged("delete_dmg")
               /\ ~Logged("report_mount")

\* the archive was tested, unlocked and extracted, and the run finalized
C7_Witness ==
    /\ command = "import"
    /\ pc = "done" /\ result = "ok"
    /\ test7z = <<FALSE, TRUE>>
    /\ Before("secure", "7z_test")
    /\ Before("7z_test", "extract")
    /\ Before("extract", "finalize")

(***************************************************************************)
(* C8: a run that reaches finalization reports the mount path, whichever   *)
(* branch is taken and whether or not deleting the container succeeds;     *)
(* with the retention flag the container is kept and its path reported,    *)
(* without it the container is deleted.                                    *)
(***************************************************************************)
C8_AlwaysReportsMount ==
    (pc = "done" /\ Logged("finalize")) =>
        /\ Logged("report_mount")
        /\ args.keep_dmg => (Logged("report_dmg") /\ ~Logged("delete_dmg"))
        /\ (~args.keep_dmg /\ result = "ok") => Logged("delete_dmg")

(***************************************************************************)
(* C9: when the archive tool or the disk-image manager is missing, an      *)
(* invocation of a command does none of its work (no container created,    *)
(* no volume queried, mounted or ejected, no file scanned or deleted, no   *)
(* schedule file rewritten).                                               *)
(***************************************************************************)
WorkEvents ==
    {"create", "mount", "query", "eject", "scan", "delete_files", "delete_dmg",
     "rewrite_schedule"}
C9_MissingToolNoWork ==
    (command \in Commands /\ (~env.has7z \/ ~env.hasHdiutil)) =>
        \A i \in 1..Len(log) : log[i] \notin WorkEvents

(***************************************************************************)
(* C10: a new volume is created in the order create, mount, secure; the    *)
(* marker written is now + days * 86400 seconds; and when the create,      *)
(* mount or secure step fails, the external tool reporting failure         *)
(* included, the run ends with an error and no later step is performed.    *)
(***************************************************************************)
C10_StepsMustSucceed ==
    command \in {"new", "import"} =>
        /\ Logged("mount") => Before("create", "mount")
        /\ Logged("secure") => Before("mount", "secure")
        /\ marker # None =>
               marker = u64_to_string(world.now.secs + args.days * SecsPerDay)
        /\ Logged("create_exit_fail") => ~Logged("mount")
        /\ Logged("mdutil_exit_fail") =>
               ~(Logged("7z_test") \/ Logged("extract") \/ Logged("finalize"))
        /\ (pc = "done" /\ (Logged("create_exit_fail") \/ Logged("mdutil_exit_fail")))
               => result # "ok"

(***************************************************************************)
(* C11: the download scan never fails because of one directory entry's     *)
(* metadata.  When the body of the loop has an entry that was read, the    *)
(* scan goes on, whatever the attribute is (absent, unreadable,            *)
(* undecodable, or a list of strings): the entry adds exactly one record,  *)
(* its first URL in stored order that parses and passes the filter, when   *)
(* there is such a URL, and nothing otherwise.  At the end of the          *)
(* directory the same records are returned in the order of their file      *)
(* names.                                                                  *)
(***************************************************************************)
RefMatchingIndexes(e) ==
    IF e.attr[1] # "urls"
    THEN {}
    ELSE {i \in 1..Len(e.attr[2]) :
             /\ Url_parse(e.attr[2][i]) # <<>>
             /\ is_match(fd_args, Url_parse(e.attr[2][i])[1], e.created)}
RefFirstIndex(e) ==
    CHOOSE i \in RefMatchingIndexes(e) : \A j \in RefMatchingIndexes(e) : i <= j
RefRecord(e) ==
    [path |-> e.path, source |-> Url_parse(e.attr[2][RefFirstIndex(e)])[1]]
RefEntryStep ==
    fd_pc = "entry" =>
        /\ fd_result' = "running"
        /\ matches' = IF RefMatchingIndexes(entry[1]) # {}
                      THEN Append(matches, RefRecord(entry[1]))
                      ELSE matches
RefSortedByName(ms) ==
    \A i, j \in 1..Len(ms) : i < j => ~name_less(ms[j].path, ms[i].path)
RefSameRecords(xs, ys) ==
    /\ Len(xs) = Len(ys)
    /\ {xs[i] : i \in 1..Len(xs)} = {ys[i] : i \in 1..Len(ys)}
RefSortStep ==
    (fd_pc = "read_dir" /\ fd_pc' = "print") =>
        /\ RefSortedByName(matches')
        /\ RefSameRecords(matches', matches)
C11_ScanNeverFailsOnMetadata == [][RefEntryStep /\ RefSortStep]_vars

=============================================================================
